---- MODULE Spec2Model ----
(***************************************************************************)
(* StitchFlow (DigitalTailor): the client application of src/unnamed/      *)
(* part_000 (App and its components) over the types of src/types.ts, and   *)
(* the document store it talks to.                                         *)
(*                                                                         *)
(* The store holds the "customers" and "orders" collections.  Each client  *)
(* (a browser running App) holds React state: its last delivered snapshot  *)
(* of both collections, the session, the open order form and the file      *)
(* reads in flight.  A handler is one action; a store write (addDoc,       *)
(* updateDoc) takes effect in the store within the handler's action and    *)
(* reaches a client's local state only by a later snapshot delivery.       *)
(***************************************************************************)
EXTENDS Integers, Sequences, FiniteSets, TLC

VARIABLES
  dbCustomers,   \* store: collection "customers", in delivery order
  dbOrders,      \* store: collection "orders", in delivery order
  now,           \* the wall clock read by new Date()
  loading,       \* [client -> BOOLEAN]            App: useState(true)
  customers,     \* [client -> Seq(Customer)]      App: useState([])
  orders,        \* [client -> Seq(Order)]         App: useState([])
  currentUser,   \* [client -> Null | user]        App: useState(null)
  orderForm,     \* [client -> the order modal]    TailorDashboard + OrderForm
  readers,       \* [client -> set of FileReaders whose onload is pending]
  loginView,     \* [client -> role, mobile, error]         LoginView
  dash,          \* [client -> activeTab, searchTerm]       TailorDashboard
  customerForm   \* [client -> the customer modal]  TailorDashboard + CustomerForm

storeVars   == <<dbCustomers, dbOrders, now>>
viewVars    == <<loading, customers, orders>>
uiVars      == <<loginView, dash, customerForm>>
vars == <<dbCustomers, dbOrders, now, loading, customers, orders,
          currentUser, orderForm, readers, loginView, dash, customerForm>>

----------------------------------------------------------------------------
(* Bounds of the model *)

MaxOrders == 3      \* documents in the "orders" collection
MaxMsgs == 2        \* length of a message sequence a send may write
MaxPhotos == 2      \* photos an upload has read plus file reads in flight
MaxClock == 3       \* timestamps taken
MaxCustomers == 3   \* documents in the "customers" collection
MaxPics == 1        \* profile picture reads in flight in a customer form

Clients == {"A", "B"}

----------------------------------------------------------------------------
(* src/types.ts *)

PENDING == "Pending"
STITCHING == "In Stitching"
READY == "Ready"
DELIVERED == "Delivered"
OrderStatus == {PENDING, STITCHING, READY, DELIVERED}

PAID == "Paid"
UNPAID == "Unpaid"
PaymentStatus == {PAID, UNPAID}

TAILOR == "Tailor"
CUSTOMER == "Customer"
UserRole == {TAILOR, CUSTOMER}

\* The null of currentUser: { role; id? } | null.
Null == [role |-> "null"]

----------------------------------------------------------------------------
(* Values the user and the platform supply *)

\* The default profile picture, a data URL.
PROF_1 == <<"data:image", "PROF_1">>

\* ./constants is not part of the sources: a fixed catalog of garment styles.
SUIT_TYPES == <<"Shalwar Kameez", "Kurta">>

\* The ten body measurements of the order form, in the form's order.
BodyFields == {"shoulder", "chest", "waist", "neck", "armLength", "wrist",
               "shirtLength", "shalwarLength", "paincha", "damain"}

Today == "2024-01-01"
Dates == {"2024-02-01"}

\* Texts typed into the number inputs of the order form, as Number() reads them.
Amounts == {-500, 0, 500, 1500}

\* Text the application compares or searches character by character (names,
\* mobile numbers, order ids, the search term) is a sequence of characters;
\* text it only stores is an atom.
Mobile1 == <<"0", "3", "0", "1">>
Mobile2 == <<"0", "3", "0", "2">>
Mobiles == {Mobile1, Mobile2, <<"0", "9">>}
Texts == {"", "kapray tayyar", "ready"}
Files == {"f1", "f2"}
RandomIds == {"k1", "k2"}

\* FileReader.readAsDataURL: the encoded image handed to reader.onload.
DataURL(file) == <<"data:image", file>>

----------------------------------------------------------------------------
(* Array helpers *)

\* Array.prototype.find: the index of the first element with P, 0 for undefined.
FirstIndex(s, P(_)) ==
  LET I == {i \in 1..Len(s) : P(s[i])}
  IN  IF I = {} THEN 0 ELSE CHOOSE i \in I : \A j \in I : i <= j

\* String.prototype.toLowerCase, character by character.
UpperCase == <<"A", "B", "C", "D", "E", "F", "G", "H", "I", "J", "K", "L", "M",
               "N", "O", "P", "Q", "R", "S", "T", "U", "V", "W", "X", "Y", "Z">>
LowerCase == <<"a", "b", "c", "d", "e", "f", "g", "h", "i", "j", "k", "l", "m",
               "n", "o", "p", "q", "r", "s", "t", "u", "v", "w", "x", "y", "z">>

LowerOf ==
  [ch \in {UpperCase[i] : i \in 1..Len(UpperCase)} |->
     LowerCase[CHOOSE i \in 1..Len(UpperCase) : UpperCase[i] = ch]]

ToLowerChar(ch) == IF ch \in DOMAIN LowerOf THEN LowerOf[ch] ELSE ch

ToLowerCase(str) == [i \in 1..Len(str) |-> ToLowerChar(str[i])]

\* String.prototype.includes: t occurs in str as a contiguous run.
Includes(str, t) ==
  \E i \in 0..(Len(str) - Len(t)) : SubSeq(str, i + 1, i + Len(t)) = t

IsSuffix(s, t) ==
  /\ Len(s) <= Len(t)
  /\ SubSeq(t, Len(t) - Len(s) + 1, Len(t)) = s

IsPrefix(s, t) ==
  /\ Len(s) <= Len(t)
  /\ SubSeq(t, 1, Len(s)) = s

----------------------------------------------------------------------------
(* The store *)

Customer1 ==
  [id |-> "c1", name |-> <<"A", "l", "i">>, fatherName |-> <<"R", "a", "o">>,
   address |-> "Lahore", cnic |-> "", mobileNumber |-> Mobile1,
   profilePicture |-> PROF_1]

Customer2 ==
  [id |-> "c2", name |-> <<"B", "a", "l">>, fatherName |-> <<"A", "L", "I">>,
   address |-> "Karachi", cnic |-> "35202", mobileNumber |-> Mobile2,
   profilePicture |-> PROF_1]

\* OrderForm's initial measurements.
InitialMeas ==
  [suitType |-> SUIT_TYPES[1], shoulder |-> "", chest |-> "", waist |-> "",
   neck |-> "", armLength |-> "", wrist |-> "", shirtLength |-> "",
   shalwarLength |-> "", paincha |-> "", damain |-> "", numPockets |-> 2,
   numSuits |-> 1, clothLengthGiven |-> "", measurementDate |-> Today,
   deliveryDate |-> "", specialNotes |-> ""]

\* quickFill: the ten body measurements overwritten, the rest kept.
QuickFilled(meas) ==
  [meas EXCEPT !.shoulder = "18", !.chest = "42", !.waist = "38",
               !.neck = "15.5", !.armLength = "24", !.wrist = "9.5",
               !.shirtLength = "39", !.shalwarLength = "40",
               !.paincha = "8.5", !.damain = "22"]

\* DerivePayment with the amount due clamped at zero.
DerivePaymentClamped(pay) ==
  LET due == pay.stitchingPrice - pay.advancePaid
      shown == IF due < 0 THEN 0 ELSE due
  IN  [stitchingPrice |-> pay.stitchingPrice,
       advancePaid |-> pay.advancePaid,
       remainingAmount |-> shown,
       status |-> IF due <= 0 THEN PAID ELSE UNPAID]

\* DerivePayment with PAID only on overpayment (due < 0).
DerivePaymentStrict(pay) ==
  LET due == pay.stitchingPrice - pay.advancePaid
  IN  [stitchingPrice |-> pay.stitchingPrice,
       advancePaid |-> pay.advancePaid,
       remainingAmount |-> due,
       status |-> IF due < 0 THEN PAID ELSE UNPAID]

\* OrderForm: due, and the payment handed to onSubmit.
DerivePayment(pay) ==
  LET due == pay.stitchingPrice - pay.advancePaid
  IN  [stitchingPrice |-> pay.stitchingPrice,
       advancePaid |-> pay.advancePaid,
       remainingAmount |-> due,
       status |-> IF due <= 0 THEN PAID ELSE UNPAID]

InitialPay == [stitchingPrice |-> 1500, advancePaid |-> 500]

\* The order's photos as the components read them: order.photos || [].
PhotosOf(o) == IF "photos" \in DOMAIN o THEN o.photos ELSE <<>>

Digits == <<"1", "2", "3", "4", "5", "6", "7", "8", "9">>

\* The document id the store assigns to the n-th order.
OrderId(n) == <<"O", Digits[n]>>

\* The document id the store assigns to the n-th customer.
CustomerId(n) == <<"c1", "c2", "c3", "c4", "c5", "c6", "c7", "c8", "c9">>[n]

\* An order document written before the photos field existed (Order.photos is
\* optional): it carries no photos and no createdAt.

LegacyOrder ==
  [id |-> OrderId(1), customerId |-> "c1",
   measurements |-> [QuickFilled(InitialMeas) EXCEPT !.deliveryDate = "2024-02-01"],
   status |-> PENDING, payment |-> DerivePayment(InitialPay),
   messages |-> <<>>]

\* An order as handleAddOrder writes it.
SecondOrder ==
  [id |-> OrderId(2), customerId |-> "c2",
   measurements |-> [QuickFilled(InitialMeas) EXCEPT !.deliveryDate = "2024-02-01"],
   status |-> PENDING, payment |-> DerivePayment(InitialPay),
   messages |-> <<>>, photos |-> <<>>, createdAt |-> 0]

\* updateDoc(doc(db, "orders", id), {field: value}): that field of that
\* document is set (added when absent); everything else is left as it is.
SetField(o, field, value) ==
  [f \in DOMAIN o \cup {field} |-> IF f = field THEN value ELSE o[f]]

UpdateDoc(docs, id, field, value) ==
  [i \in 1..Len(docs) |->
     IF docs[i].id = id THEN SetField(docs[i], field, value) ELSE docs[i]]

\* addDoc(collection(db, "orders"), data): the store assigns the id.
AddDoc(docs, data) == Append(docs, SetField(data, "id", OrderId(Len(docs) + 1)))

\* orders.find(o => o.id === id) on a client's array (0: undefined).
FindOrder(os, id) == FirstIndex(os, LAMBDA o : o.id = id)

\* customers.find(c => c.id === id)
FindCustomer(cs, id) == FirstIndex(cs, LAMBDA k : k.id = id)

Ids(s) == {s[i].id : i \in 1..Len(s)}

----------------------------------------------------------------------------
(* Init: App as constructed, over a store that already holds two customers *)
(* and an order of each.                                                   *)

ClosedForm == [open |-> FALSE]

\* LoginView: useState(null), useState(''), useState('')
InitialLoginView == [role |-> "null", mobile |-> <<>>, error |-> ""]

\* TailorDashboard: activeTab and searchTerm
InitialDash == [activeTab |-> "customers", searchTerm |-> <<>>]

\* CustomerForm: useState(data)
InitialData ==
  [name |-> <<>>, fatherName |-> <<>>, address |-> "", cnic |-> "",
   mobileNumber |-> <<>>, profilePicture |-> PROF_1]

Init ==
  /\ dbCustomers = <<Customer1, Customer2>>
  /\ dbOrders = <<LegacyOrder, SecondOrder>>
  /\ now = 1
  /\ loading = [c \in Clients |-> TRUE]
  /\ customers = [c \in Clients |-> <<>>]
  /\ orders = [c \in Clients |-> <<>>]
  /\ currentUser = [c \in Clients |-> Null]
  /\ orderForm = [c \in Clients |-> ClosedForm]
  /\ readers = [c \in Clients |-> {}]
  /\ loginView = [c \in Clients |-> InitialLoginView]
  /\ dash = [c \in Clients |-> InitialDash]
  /\ customerForm = [c \in Clients |-> ClosedForm]

----------------------------------------------------------------------------
(* App: the live subscriptions *)

\* onSnapshot(collection(db, "customers"), ...)
SnapshotCustomers(c) ==
  /\ loading[c] \/ customers[c] # dbCustomers
  /\ customers' = [customers EXCEPT ![c] = dbCustomers]
  /\ loading' = [loading EXCEPT ![c] = FALSE]
  /\ UNCHANGED <<storeVars, orders, currentUser, orderForm, readers, uiVars>>

\* SnapshotOrders that also ends the loading state.
SnapshotOrdersEndingLoading(c) ==
  /\ orders[c] # dbOrders
  /\ orders' = [orders EXCEPT ![c] = dbOrders]
  /\ loading' = [loading EXCEPT ![c] = FALSE]
  /\ UNCHANGED <<storeVars, customers, currentUser, orderForm, readers, uiVars>>

\* onSnapshot(collection(db, "orders"), ...)
SnapshotOrders(c) ==
  /\ orders[c] # dbOrders
  /\ orders' = [orders EXCEPT ![c] = dbOrders]
  /\ UNCHANGED <<storeVars, loading, customers, currentUser, orderForm, readers, uiVars>>

----------------------------------------------------------------------------
(* App: what is rendered, and the session *)

\* ViewOf with the tailor's dashboard for every session.
ViewOfNoRoleCheck(isLoading, user) ==
  IF isLoading THEN "Loading"
  ELSE IF user = Null THEN "LoginView"
  ELSE "TailorDashboard"

\* App's return: the view a client shows.
ViewOf(isLoading, user) ==
  IF isLoading THEN "Loading"
  ELSE IF user = Null THEN "LoginView"
  ELSE IF user.role = TAILOR THEN "TailorDashboard"
  ELSE "CustomerDashboard"

View(c) == ViewOf(loading[c], currentUser[c])

\* loginAsTailor; LoginView unmounts and its state goes with it.
LoginAsTailor(c) ==
  /\ View(c) = "LoginView"
  /\ currentUser' = [currentUser EXCEPT ![c] = [role |-> TAILOR]]
  /\ loginView' = [loginView EXCEPT ![c] = InitialLoginView]
  /\ UNCHANGED <<storeVars, viewVars, orderForm, readers, dash, customerForm>>

\* CustomerLogin taking the last customer with the mobile number.
CustomerLoginLast(cs, mobileNumber) ==
  LET I == {i \in 1..Len(cs) : cs[i].mobileNumber = mobileNumber}
  IN  IF I # {}
      THEN [role |-> CUSTOMER, id |-> cs[CHOOSE i \in I : \A j \in I : j <= i].id]
      ELSE Null

\* CustomerLogin starting a guest session when no customer has the number.
CustomerLoginGuest(cs, mobileNumber) ==
  LET i == FirstIndex(cs, LAMBDA k : k.mobileNumber = mobileNumber)
  IN  IF i # 0 THEN [role |-> CUSTOMER, id |-> cs[i].id]
      ELSE [role |-> CUSTOMER, id |-> "guest"]

\* loginAsCustomer(mobileNumber): the session it starts, Null when none.
CustomerLogin(cs, mobileNumber) ==
  LET i == FirstIndex(cs, LAMBDA k : k.mobileNumber = mobileNumber)
  IN  IF i # 0 THEN [role |-> CUSTOMER, id |-> cs[i].id] ELSE Null

\* loginAsCustomer(mobileNumber), called on the props of LoginView; on
\* success LoginView unmounts and its state goes with it.
LoginAsCustomer(c, mobileNumber) ==
  /\ View(c) = "LoginView"
  /\ LET u == CustomerLogin(customers[c], mobileNumber)
     IN  /\ currentUser' = [currentUser EXCEPT ![c] = IF u # Null THEN u ELSE @]
         /\ loginView' = [loginView EXCEPT ![c] =
                           IF u # Null THEN InitialLoginView ELSE @]
  /\ UNCHANGED <<storeVars, viewVars, orderForm, readers, dash, customerForm>>

\* CustomerDashboard renders its content (logout button, orders) only when
\* the session's customer is in the local collection.
CustomerShown(c) ==
  /\ View(c) = "CustomerDashboard"
  /\ FindCustomer(customers[c], currentUser[c].id) # 0

TailorShown(c) == View(c) = "TailorDashboard"

\* logout; the dashboard unmounts and its state (tab, search term, modals)
\* goes with it.
Logout(c) ==
  /\ TailorShown(c) \/ CustomerShown(c)
  /\ currentUser' = [currentUser EXCEPT ![c] = Null]
  /\ orderForm' = [orderForm EXCEPT ![c] = ClosedForm]
  /\ dash' = [dash EXCEPT ![c] = InitialDash]
  /\ customerForm' = [customerForm EXCEPT ![c] = ClosedForm]
  /\ UNCHANGED <<storeVars, viewVars, readers, loginView>>

----------------------------------------------------------------------------
(* LoginView *)

\* "I am a Tailor", "I am a Customer", "Go Back"
SetRole(c, role) ==
  /\ View(c) = "LoginView"
  /\ loginView' = [loginView EXCEPT ![c].role = role]
  /\ UNCHANGED <<storeVars, viewVars, currentUser, orderForm, readers, dash,
                 customerForm>>

\* The mobile input of the customer's form.
SetMobile(c, text) ==
  /\ View(c) = "LoginView"
  /\ loginView[c].role = CUSTOMER
  /\ loginView' = [loginView EXCEPT ![c].mobile = text]
  /\ UNCHANGED <<storeVars, viewVars, currentUser, orderForm, readers, dash,
                 customerForm>>

\* "Enter Dashboard"
EnterDashboard(c) ==
  /\ loginView[c].role = TAILOR
  /\ LoginAsTailor(c)

NotFound == "Customer not found. Ensure mobile number is correct."

\* HandleCustomerLogin that empties the mobile input on a failed login.
HandleCustomerLoginClearing(c) ==
  /\ View(c) = "LoginView"
  /\ loginView[c].role = CUSTOMER
  /\ loginView[c].mobile # <<>>
  /\ LET u == CustomerLogin(customers[c], loginView[c].mobile)
     IN  /\ currentUser' = [currentUser EXCEPT ![c] = IF u # Null THEN u ELSE @]
         /\ loginView' = [loginView EXCEPT ![c] =
                           IF u # Null THEN InitialLoginView
                           ELSE [@ EXCEPT !.error = NotFound, !.mobile = <<>>]]
  /\ UNCHANGED <<storeVars, viewVars, orderForm, readers, dash, customerForm>>

\* "Track My Order": handleCustomerLogin, which calls loginAsCustomer(mobile)
\* and sets the error when it returns false.  The input is required, so the
\* form submits only with a mobile typed.
HandleCustomerLogin(c) ==
  /\ View(c) = "LoginView"
  /\ loginView[c].role = CUSTOMER
  /\ loginView[c].mobile # <<>>
  /\ LET u == CustomerLogin(customers[c], loginView[c].mobile)
     IN  /\ currentUser' = [currentUser EXCEPT ![c] = IF u # Null THEN u ELSE @]
         /\ loginView' = [loginView EXCEPT ![c] =
                           IF u # Null THEN InitialLoginView
                           ELSE [@ EXCEPT !.error = NotFound]]
  /\ UNCHANGED <<storeVars, viewVars, orderForm, readers, dash, customerForm>>

----------------------------------------------------------------------------
(* TailorDashboard: the tabs and the search *)

\* The "Customers" and "Orders" tabs: the tab is set and the search emptied.
SetActiveTab(c, tab) ==
  /\ TailorShown(c)
  /\ dash' = [dash EXCEPT ![c] = [activeTab |-> tab, searchTerm |-> <<>>]]
  /\ UNCHANGED <<storeVars, viewVars, currentUser, orderForm, readers,
                 loginView, customerForm>>

\* The search input.
SetSearchTerm(c, text) ==
  /\ TailorShown(c)
  /\ dash' = [dash EXCEPT ![c].searchTerm = text]
  /\ UNCHANGED <<storeVars, viewVars, currentUser, orderForm, readers,
                 loginView, customerForm>>

\* FilteredCustomers giving the newest customer first when nothing is searched.
FilteredCustomersNewestFirst(cs, searchTerm) ==
  IF searchTerm = <<>> THEN [i \in 1..Len(cs) |-> cs[Len(cs) + 1 - i]]
  ELSE LET low == ToLowerCase(searchTerm)
       IN  SelectSeq(cs, LAMBDA k :
             \/ Includes(ToLowerCase(k.name), low)
             \/ Includes(k.mobileNumber, searchTerm)
             \/ Includes(ToLowerCase(k.fatherName), low))

\* FilteredCustomers matching the mobile number in any case.
FilteredCustomersAnyCaseMobile(cs, searchTerm) ==
  IF searchTerm = <<>> THEN cs
  ELSE LET low == ToLowerCase(searchTerm)
       IN  SelectSeq(cs, LAMBDA k :
             \/ Includes(ToLowerCase(k.name), low)
             \/ Includes(ToLowerCase(k.mobileNumber), low)
             \/ Includes(ToLowerCase(k.fatherName), low))

\* FilteredCustomers leaving out the first match of a search.
FilteredCustomersAfterFirst(cs, searchTerm) ==
  IF searchTerm = <<>> THEN cs
  ELSE LET low == ToLowerCase(searchTerm)
           found == SelectSeq(cs, LAMBDA k :
                      \/ Includes(ToLowerCase(k.name), low)
                      \/ Includes(k.mobileNumber, searchTerm)
                      \/ Includes(ToLowerCase(k.fatherName), low))
       IN  IF found = <<>> THEN found ELSE Tail(found)

\* filteredCustomers
FilteredCustomers(cs, searchTerm) ==
  IF searchTerm = <<>> THEN cs
  ELSE LET low == ToLowerCase(searchTerm)
       IN  SelectSeq(cs, LAMBDA k :
             \/ Includes(ToLowerCase(k.name), low)
             \/ Includes(k.mobileNumber, searchTerm)
             \/ Includes(ToLowerCase(k.fatherName), low))

\* FilteredOrders dropping the orders whose customer is not found.
FilteredOrdersKnownOnly(os, cs, searchTerm) ==
  IF searchTerm = <<>> THEN os
  ELSE LET low == ToLowerCase(searchTerm)
       IN  SelectSeq(os, LAMBDA o :
             LET i == FindCustomer(cs, o.customerId)
             IN  /\ i # 0
                 /\ \/ Includes(ToLowerCase(o.id), low)
                    \/ Includes(ToLowerCase(cs[i].name), low))

\* filteredOrders; customer?.name... is undefined, so false, without a customer.
FilteredOrders(os, cs, searchTerm) ==
  IF searchTerm = <<>> THEN os
  ELSE LET low == ToLowerCase(searchTerm)
       IN  SelectSeq(os, LAMBDA o :
             LET i == FindCustomer(cs, o.customerId)
             IN  \/ Includes(ToLowerCase(o.id), low)
                 \/ i # 0 /\ Includes(ToLowerCase(cs[i].name), low))

Unknown == <<"U", "n", "k", "n", "o", "w", "n">>

\* CustomerName falling back to the order's customerId.
CustomerNameOrId(cs, order) ==
  LET i == FindCustomer(cs, order.customerId)
  IN  IF i # 0 /\ cs[i].name # <<>> THEN cs[i].name ELSE <<order.customerId>>

\* The customerName an OrderCard is given: customer?.name || 'Unknown'.
CustomerName(cs, order) ==
  LET i == FindCustomer(cs, order.customerId)
  IN  IF i # 0 /\ cs[i].name # <<>> THEN cs[i].name ELSE Unknown

\* The customer cards and the order cards the dashboard renders.
CustomerCards(c) ==
  IF TailorShown(c) /\ dash[c].activeTab = "customers"
  THEN FilteredCustomers(customers[c], dash[c].searchTerm)
  ELSE <<>>

OrderCards(c) ==
  IF TailorShown(c) /\ dash[c].activeTab = "orders"
  THEN FilteredOrders(orders[c], customers[c], dash[c].searchTerm)
  ELSE <<>>

----------------------------------------------------------------------------
(* TailorDashboard and OrderForm: creating an order *)

\* "New Order" on a customer card: the modal opens on a fresh OrderForm.
OpenOrderForm(c, customerId) ==
  /\ TailorShown(c)
  /\ ~orderForm[c].open
  /\ customerId \in Ids(CustomerCards(c))
  /\ orderForm' = [orderForm EXCEPT ![c] =
       [open |-> TRUE, selectedCustomerId |-> customerId,
        meas |-> InitialMeas, pay |-> InitialPay]]
  /\ UNCHANGED <<storeVars, viewVars, currentUser, readers, uiVars>>

\* Modal onClose
CloseOrderForm(c) ==
  /\ TailorShown(c)
  /\ orderForm[c].open
  /\ orderForm' = [orderForm EXCEPT ![c] = ClosedForm]
  /\ UNCHANGED <<storeVars, viewVars, currentUser, readers, uiVars>>

\* setMeas({ ...meas, [f]: e.target.value }), for the select, the date and
\* the ten text inputs.
SetMeas(c, f, v) ==
  /\ TailorShown(c)
  /\ orderForm[c].open
  /\ orderForm' = [orderForm EXCEPT ![c].meas = SetField(@, f, v)]
  /\ UNCHANGED <<storeVars, viewVars, currentUser, readers, uiVars>>

QuickFill(c) ==
  /\ TailorShown(c)
  /\ orderForm[c].open
  /\ orderForm' = [orderForm EXCEPT ![c].meas = QuickFilled(@)]
  /\ UNCHANGED <<storeVars, viewVars, currentUser, readers, uiVars>>

\* setPay({ ...pay, stitchingPrice: Number(e.target.value) })
SetStitchingPrice(c, v) ==
  /\ TailorShown(c)
  /\ orderForm[c].open
  /\ orderForm' = [orderForm EXCEPT ![c].pay.stitchingPrice = v]
  /\ UNCHANGED <<storeVars, viewVars, currentUser, readers, uiVars>>

\* setPay({ ...pay, advancePaid: Number(e.target.value) })
SetAdvancePaid(c, v) ==
  /\ TailorShown(c)
  /\ orderForm[c].open
  /\ orderForm' = [orderForm EXCEPT ![c].pay.advancePaid = v]
  /\ UNCHANGED <<storeVars, viewVars, currentUser, readers, uiVars>>

\* The inputs marked required: the form submits only with all of them filled.
RequiredFilled(meas) ==
  /\ meas.deliveryDate # ""
  /\ \A f \in BodyFields : meas[f] # ""

\* OrderForm onSubmit: what it hands to TailorDashboard's onSubmit.
FormData(meas, pay) == [measurements |-> meas, payment |-> DerivePayment(pay)]

\* NewOrder without the photos default.
NewOrderNoPhotos(orderData, createdAt) ==
  [customerId |-> orderData.customerId,
   measurements |-> orderData.measurements,
   payment |-> orderData.payment,
   status |-> PENDING,
   messages |-> <<>>,
   createdAt |-> createdAt]

\* handleAddOrder: the document handed to addDoc.
NewOrder(orderData, createdAt) ==
  [customerId |-> orderData.customerId,
   measurements |-> orderData.measurements,
   payment |-> orderData.payment,
   status |-> PENDING,
   messages |-> <<>>,
   photos |-> <<>>,
   createdAt |-> createdAt]

\* Submit of the order form: OrderForm.onSubmit, TailorDashboard's
\* onAddOrder({ ...d, customerId: selectedCustomerId }), handleAddOrder.
SubmitOrder(c) ==
  /\ TailorShown(c)
  /\ orderForm[c].open
  /\ RequiredFilled(orderForm[c].meas)
  /\ Len(dbOrders) < MaxOrders
  /\ now < MaxClock
  /\ LET d == FormData(orderForm[c].meas, orderForm[c].pay)
         orderData == SetField(d, "customerId", orderForm[c].selectedCustomerId)
     IN  dbOrders' = AddDoc(dbOrders, NewOrder(orderData, now))
  /\ now' = now + 1
  /\ orderForm' = [orderForm EXCEPT ![c] = ClosedForm]
  /\ UNCHANGED <<dbCustomers, viewVars, currentUser, readers, uiVars>>

----------------------------------------------------------------------------
(* TailorDashboard and CustomerForm: registering a customer *)

\* "Add New" on the customers tab: the modal opens on a fresh CustomerForm.
OpenCustomerForm(c) ==
  /\ TailorShown(c)
  /\ dash[c].activeTab = "customers"
  /\ ~customerForm[c].open
  /\ customerForm' = [customerForm EXCEPT ![c] =
       [open |-> TRUE, data |-> InitialData, pics |-> {}]]
  /\ UNCHANGED <<storeVars, viewVars, currentUser, orderForm, readers,
                 loginView, dash>>

\* Modal onClose; CustomerForm unmounts, and a file read still in flight
\* sets the state of a component that is gone.
CloseCustomerForm(c) ==
  /\ TailorShown(c)
  /\ customerForm[c].open
  /\ customerForm' = [customerForm EXCEPT ![c] = ClosedForm]
  /\ UNCHANGED <<storeVars, viewVars, currentUser, orderForm, readers,
                 loginView, dash>>

\* setData({ ...data, [f]: e.target.value }), for the four inputs and the
\* address.
SetData(c, f, v) ==
  /\ TailorShown(c)
  /\ customerForm[c].open
  /\ customerForm' = [customerForm EXCEPT ![c].data = SetField(@, f, v)]
  /\ UNCHANGED <<storeVars, viewVars, currentUser, orderForm, readers,
                 loginView, dash>>

\* handlePic: a FileReader is started whose onload closes over the data of
\* this render.
HandlePic(c, file) ==
  /\ TailorShown(c)
  /\ customerForm[c].open
  /\ Cardinality(customerForm[c].pics) < MaxPics
  /\ customerForm' = [customerForm EXCEPT ![c].pics =
       @ \cup {[data |-> customerForm[c].data, file |-> file]}]
  /\ UNCHANGED <<storeVars, viewVars, currentUser, orderForm, readers,
                 loginView, dash>>

\* reader.onload: setData({ ...data, profilePicture: reader.result }), data
\* being the data the reader was started with.
PicLoad(c, r) ==
  /\ customerForm[c].open
  /\ r \in customerForm[c].pics
  /\ customerForm' = [customerForm EXCEPT
       ![c].data = SetField(r.data, "profilePicture", DataURL(r.file)),
       ![c].pics = @ \ {r}]
  /\ UNCHANGED <<storeVars, viewVars, currentUser, orderForm, readers,
                 loginView, dash>>

\* The inputs marked required: all but cnic.
CustomerRequiredFilled(data) ==
  /\ data.name # <<>>
  /\ data.fatherName # <<>>
  /\ data.mobileNumber # <<>>
  /\ data.address # ""

\* addDoc(collection(db, "customers"), customer): the store assigns the id.
AddCustomerDoc(docs, customer) ==
  Append(docs, SetField(customer, "id", CustomerId(Len(docs) + 1)))

\* "REGISTER CUSTOMER": CustomerForm.onSubmit(data), TailorDashboard's
\* onAddCustomer(c) and setIsAddingCustomer(false), handleAddCustomer.
SubmitCustomer(c) ==
  /\ TailorShown(c)
  /\ customerForm[c].open
  /\ CustomerRequiredFilled(customerForm[c].data)
  /\ Len(dbCustomers) < MaxCustomers
  /\ dbCustomers' = AddCustomerDoc(dbCustomers, customerForm[c].data)
  /\ customerForm' = [customerForm EXCEPT ![c] = ClosedForm]
  /\ UNCHANGED <<dbOrders, now, viewVars, currentUser, orderForm, readers,
                 loginView, dash>>

----------------------------------------------------------------------------
(* OrderCard (tailor) and CustomerOrderView (customer) *)

\* ShownOrders with every order of the collection in the customer's portal.
ShownOrdersAll(c) ==
  IF TailorShown(c) THEN OrderCards(c)
  ELSE IF CustomerShown(c) THEN orders[c]
       ELSE <<>>

\* The orders a client renders a card for: the tailor's filteredOrders on
\* the orders tab, the customer's own orders.
ShownOrders(c) ==
  IF TailorShown(c) THEN OrderCards(c)
  ELSE IF CustomerShown(c)
       THEN SelectSeq(orders[c], LAMBDA o : o.customerId = currentUser[c].id)
       ELSE <<>>

\* UpdateStatus that also logs a notification message on the order.
UpdateStatusNotifying(c, id, status) ==
  /\ TailorShown(c)
  /\ id \in Ids(ShownOrders(c))
  /\ LET order == dbOrders[FindOrder(dbOrders, id)]
         note == [id |-> "k1", urdu |-> status, english |-> status,
                  timestamp |-> now]
     IN  dbOrders' = UpdateDoc(UpdateDoc(dbOrders, id, "status", status),
                               id, "messages", <<note>> \o order.messages)
  /\ UNCHANGED <<dbCustomers, now, viewVars, currentUser, orderForm, readers, uiVars>>

\* UpdateStatus with DELIVERED made terminal.
UpdateStatusForwardOnly(c, id, status) ==
  /\ TailorShown(c)
  /\ id \in Ids(ShownOrders(c))
  /\ dbOrders[FindOrder(dbOrders, id)].status # DELIVERED
  /\ dbOrders' = UpdateDoc(dbOrders, id, "status", status)
  /\ UNCHANGED <<dbCustomers, now, viewVars, currentUser, orderForm, readers, uiVars>>

\* handleUpdateStatus, from the select of an OrderCard.
UpdateStatus(c, id, status) ==
  /\ TailorShown(c)
  /\ id \in Ids(ShownOrders(c))
  /\ dbOrders' = UpdateDoc(dbOrders, id, "status", status)
  /\ UNCHANGED <<dbCustomers, now, viewVars, currentUser, orderForm, readers, uiVars>>

\* NewMessages with the new message put last.
NewMessagesAppended(order, newMessage) == Append(order.messages, newMessage)

\* handleSendMessage: the sequence written, from the client's own array.
NewMessages(order, newMessage) == <<newMessage>> \o order.messages

\* SendMessage that also puts the message into the client's own array.
SendMessageOptimistic(c, id, urdu, english, rnd) ==
  /\ TailorShown(c)
  /\ id \in Ids(ShownOrders(c))
  /\ now < MaxClock
  /\ LET i == FindOrder(orders[c], id)
         order == orders[c][i]
         newMessage == [id |-> rnd, urdu |-> urdu, english |-> english,
                        timestamp |-> now]
     IN  /\ Len(order.messages) < MaxMsgs
         /\ dbOrders' = UpdateDoc(dbOrders, id, "messages",
                                  NewMessages(order, newMessage))
         /\ orders' = [orders EXCEPT ![c][i].messages =
                                       NewMessages(order, newMessage)]
  /\ now' = now + 1
  /\ UNCHANGED <<dbCustomers, loading, customers, currentUser, orderForm,
                 readers, uiVars>>

\* "Send Notification" of an OrderCard: handleSendMessage(id, urdu, english).
SendMessage(c, id, urdu, english, rnd) ==
  /\ TailorShown(c)
  /\ id \in Ids(ShownOrders(c))
  /\ now < MaxClock
  /\ LET order == orders[c][FindOrder(orders[c], id)]
         newMessage == [id |-> rnd, urdu |-> urdu, english |-> english,
                        timestamp |-> now]
     IN  /\ Len(order.messages) < MaxMsgs
         /\ dbOrders' = UpdateDoc(dbOrders, id, "messages",
                                  NewMessages(order, newMessage))
  /\ now' = now + 1
  /\ UNCHANGED <<dbCustomers, viewVars, currentUser, orderForm, readers, uiVars>>

\* The file input's onChange: a FileReader is started whose onload closes
\* over the order of this render; of that order it reads the photos alone.
\* Two readers of one client with the same order, photos and file write the
\* same value, so a set holds them.
StartReader(c, id, file) ==
  /\ id \in Ids(ShownOrders(c))
  /\ LET order == orders[c][FindOrder(orders[c], id)]
     IN  /\ Len(PhotosOf(order)) + Cardinality(readers[c]) < MaxPhotos
         /\ readers' = [readers EXCEPT ![c] =
              @ \cup {[id |-> id, photos |-> PhotosOf(order), file |-> file]}]
  /\ UNCHANGED <<storeVars, viewVars, currentUser, orderForm, uiVars>>

\* OrderCard: "Upload Style Photo"
TailorSelectPhoto(c, id, file) ==
  /\ TailorShown(c)
  /\ StartReader(c, id, file)

\* CustomerOrderView: "Upload Style"
CustomerSelectPhoto(c, id, file) ==
  /\ CustomerShown(c)
  /\ StartReader(c, id, file)

\* NewPhotos with the new photo put first.
NewPhotosPrepended(photos, result) == <<result>> \o photos

\* reader.onload: the sequence handed to onPhotoUpdate,
\* [...(order.photos || []), reader.result].
NewPhotos(photos, result) == Append(photos, result)

\* reader.onload: onPhotoUpdate(...), i.e. handlePhotoUpdate(id, photos).
ReaderLoad(c, r) ==
  /\ r \in readers[c]
  /\ dbOrders' = UpdateDoc(dbOrders, r.id, "photos",
                           NewPhotos(r.photos, DataURL(r.file)))
  /\ readers' = [readers EXCEPT ![c] = @ \ {r}]
  /\ UNCHANGED <<dbCustomers, now, viewVars, currentUser, orderForm, uiVars>>

----------------------------------------------------------------------------------------------------------------------------------------------------
(* Specifications.  Each is the application with its inputs narrowed to    *)
(* one part of it, so that the part is explored in full.                   *)

\* The order form: one tailor creating orders with every payment.
NextForm ==
  \E c \in {"A"} :
    \/ SnapshotCustomers(c)
    \/ LoginAsTailor(c)
    \/ Logout(c)
    \/ \E k \in Ids(customers[c]) : OpenOrderForm(c, k)
    \/ CloseOrderForm(c)
    \/ QuickFill(c)
    \/ \E d \in Dates : SetMeas(c, "deliveryDate", d)
    \/ \E v \in Amounts : SetStitchingPrice(c, v)
    \/ \E v \in Amounts : SetAdvancePaid(c, v)
    \/ SubmitOrder(c)

SpecForm == Init /\ [][NextForm]_vars

\* The order lifecycle: two browsers, either of which may hold a tailor's or
\* a customer's session, and the status select.
NextStatus ==
  \E c \in Clients :
    \/ SnapshotCustomers(c)
    \/ SnapshotOrders(c)
    \/ LoginAsTailor(c)
    \/ SetActiveTab(c, "orders")
    \/ \E m \in Mobiles : LoginAsCustomer(c, m)
    \/ Logout(c)
    \/ \E id \in Ids(orders[c]), s \in OrderStatus : UpdateStatus(c, id, s)

SpecStatus == Init /\ [][NextStatus]_vars

\* The two roles: one browser, in which tailor and customer sessions follow
\* each other, with what each dashboard offers on an order.
NextRoles ==
  \E c \in {"A"} :
    \/ SnapshotCustomers(c)
    \/ SnapshotOrders(c)
    \/ LoginAsTailor(c)
    \/ SetActiveTab(c, "orders")
    \/ \E m \in Mobiles : LoginAsCustomer(c, m)
    \/ Logout(c)
    \/ \E id \in Ids(orders[c]), s \in {STITCHING, DELIVERED} : UpdateStatus(c, id, s)
    \/ \E id \in Ids(orders[c]) : CustomerSelectPhoto(c, id, "f1")
    \/ \E r \in readers[c] : ReaderLoad(c, r)

SpecRoles == Init /\ [][NextRoles]_vars

\* The three order updates side by side, from one tailor.
NextFrame ==
  \E c \in {"A"} :
    \/ SnapshotCustomers(c)
    \/ SnapshotOrders(c)
    \/ LoginAsTailor(c)
    \/ SetActiveTab(c, "orders")
    \/ \E id \in Ids(orders[c]), s \in {STITCHING, DELIVERED} : UpdateStatus(c, id, s)
    \/ \E id \in Ids(orders[c]) : SendMessage(c, id, "kapray tayyar", "ready", "k1")
    \/ TailorSelectPhoto(c, OrderId(1), "f1")
    \/ \E r \in readers[c] : ReaderLoad(c, r)

SpecFrame == Init /\ [][NextFrame]_vars

\* The messaging log: two tailors' browsers.
NextMsg ==
  \E c \in Clients :
    \/ SnapshotCustomers(c)
    \/ SnapshotOrders(c)
    \/ LoginAsTailor(c)
    \/ SetActiveTab(c, "orders")
    \/ \E id \in Ids(orders[c]), u \in {"", "kapray tayyar"}, k \in RandomIds :
         SendMessage(c, id, u, "ready", k)

SpecMsg == Init /\ [][NextMsg]_vars

\* The photo gallery of one order: the tailor's browser (A) uploading one
\* file and the browser of the order's customer (B) uploading another.
NextPhoto ==
  \E c \in Clients :
    \/ SnapshotCustomers(c)
    \/ SnapshotOrders(c)
    \/ c = "A" /\ LoginAsTailor(c)
    \/ SetActiveTab(c, "orders")
    \/ c = "B" /\ LoginAsCustomer(c, Mobile1)
    \/ TailorSelectPhoto(c, OrderId(1), "f1")
    \/ CustomerSelectPhoto(c, OrderId(1), "f2")
    \/ \E r \in readers[c] : ReaderLoad(c, r)

SpecPhoto == Init /\ [][NextPhoto]_vars

\* What is typed into the mobile input of the login form: the registered
\* numbers, an unregistered one, and the beginning of a registered one.
LoginTexts == Mobiles \cup {<<"0", "3", "0">>}

\* What is typed into the customer form.
FormNames == {<<"A", "L", "I">>}
FormAddresses == {"Multan"}
FormMobiles == {Mobile1, <<"0", "9">>}

\* Sessions: one browser in which the tailor registers customers (with a
\* mobile number already in use, or a new one) and customers log in.
NextLogin ==
  \E c \in {"A"} :
    \/ SnapshotCustomers(c)
    \/ SnapshotOrders(c)
    \/ \E r \in {TAILOR, CUSTOMER, "null"} : SetRole(c, r)
    \/ \E m \in LoginTexts : SetMobile(c, m)
    \/ EnterDashboard(c)
    \/ HandleCustomerLogin(c)
    \/ Logout(c)
    \/ OpenCustomerForm(c)
    \/ \E v \in FormNames : SetData(c, "name", v)
    \/ \E v \in FormNames : SetData(c, "fatherName", v)
    \/ \E v \in FormAddresses : SetData(c, "address", v)
    \/ \E v \in FormMobiles : SetData(c, "mobileNumber", v)
    \/ SubmitCustomer(c)

SpecLogin == Init /\ [][NextLogin]_vars

\* What is typed into the search input.
SearchTexts == {<<>>, <<"L", "I">>, <<"r", "a">>, <<"o", "3">>}

\* Further terms the filters are evaluated on.
MoreTexts == {<<"a", "l">>, <<"0", "2">>, <<"0", "x">>, <<"0", "X">>, <<"O">>, <<"z">>}

\* The directory: the tailor in browser A searches customers and orders while
\* the tailor in browser B registers a customer and takes an order of that
\* customer, which may reach A before the customer does.  B fills each form
\* from the top.
NextSearch ==
  \/ \E c \in Clients :
       \/ SnapshotCustomers(c)
       \/ LoginAsTailor(c)
  \/ \E c \in {"A"} :
       \/ SnapshotOrders(c)
       \/ \E tab \in {"customers", "orders"} : SetActiveTab(c, tab)
       \/ \E t \in SearchTexts : SetSearchTerm(c, t)
  \/ \E c \in {"B"} :
       \/ OpenCustomerForm(c)
       \/ SetData(c, "name", <<"A", "L", "I">>)
       \/ customerForm[c].open /\ customerForm[c].data.name # <<>>
            /\ SetData(c, "fatherName", <<"Z", "i", "a">>)
       \/ customerForm[c].open /\ customerForm[c].data.fatherName # <<>>
            /\ SetData(c, "mobileNumber", <<"0", "X">>)
       \/ customerForm[c].open /\ customerForm[c].data.mobileNumber # <<>>
            /\ SetData(c, "address", "Multan")
       \/ SubmitCustomer(c)
       \/ \E k \in Ids(customers[c]) \ Ids(<<Customer1, Customer2>>) :
            OpenOrderForm(c, k)
       \/ QuickFill(c)
       \/ \E d \in Dates :
            orderForm[c].open /\ orderForm[c].meas.chest # "" /\ SetMeas(c, "deliveryDate", d)
       \/ SubmitOrder(c)

SpecSearch == Init /\ [][NextSearch]_vars

\* Every kind of operation from one browser: a session, the search, a
\* customer and an order created on the customers tab, and then the three
\* updates of the first order on the orders tab.  The forms are opened one at
\* a time and filled from the top.
NextLocal ==
  \E c \in {"A"} :
    \/ SnapshotCustomers(c)
    \/ SnapshotOrders(c)
    \/ LoginAsTailor(c)
    \/ LoginAsCustomer(c, Mobile1)
    \/ Logout(c)
    \/ ~orderForm[c].open /\ ~customerForm[c].open /\ SetActiveTab(c, "orders")
    \/ dash[c].activeTab = "orders" /\ SetSearchTerm(c, <<"O">>)
    \/ ~orderForm[c].open /\ OpenCustomerForm(c)
    \/ SetData(c, "name", <<"A", "L", "I">>)
    \/ customerForm[c].open /\ customerForm[c].data.name # <<>>
         /\ SetData(c, "fatherName", <<"Z", "i", "a">>)
    \/ customerForm[c].open /\ customerForm[c].data.fatherName # <<>>
         /\ SetData(c, "mobileNumber", <<"0", "X">>)
    \/ customerForm[c].open /\ customerForm[c].data.mobileNumber # <<>>
         /\ SetData(c, "address", "Multan")
    \/ SubmitCustomer(c)
    \/ ~customerForm[c].open /\ OpenOrderForm(c, "c1")
    \/ QuickFill(c)
    \/ \E d \in Dates :
         orderForm[c].open /\ orderForm[c].meas.chest # "" /\ SetMeas(c, "deliveryDate", d)
    \/ SubmitOrder(c)
    \/ UpdateStatus(c, OrderId(1), DELIVERED)
    \/ SendMessage(c, OrderId(1), "kapray tayyar", "ready", "k1")
    \/ TailorSelectPhoto(c, OrderId(1), "f1")
    \/ \E r \in readers[c] : ReaderLoad(c, r)

SpecLocal == Init /\ [][NextLocal]_vars

\* What is typed into the name input of the customer form, letter by letter.
TypedNames == {<<"A">>, <<"A", "L", "I">>}

\* The customer form: one tailor registering customers, typing while a
\* profile picture is being read.
NextCustomerForm ==
  \E c \in {"A"} :
    \/ SnapshotCustomers(c)
    \/ LoginAsTailor(c)
    \/ Logout(c)
    \/ OpenCustomerForm(c)
    \/ CloseCustomerForm(c)
    \/ \E v \in TypedNames : SetData(c, "name", v)
    \/ SetData(c, "fatherName", <<"Z", "i", "a">>)
    \/ SetData(c, "mobileNumber", <<"0", "X">>)
    \/ SetData(c, "cnic", "35202")
    \/ SetData(c, "address", "Multan")
    \/ HandlePic(c, "f1")
    \/ \E r \in (IF customerForm[c].open THEN customerForm[c].pics ELSE {}) :
         PicLoad(c, r)
    \/ SubmitCustomer(c)

SpecCustomerForm == Init /\ [][NextCustomerForm]_vars

----------------------------------------------------------------------------
(* Properties of the order form (SpecForm) *)

\* The order a submit has just added to the store.
Created == dbOrders'[Len(dbOrders')]

\* C1: whatever stitchingPrice and advancePaid the form holds at submit, the
\* created order stores them with remainingAmount = stitchingPrice -
\* advancePaid, unclamped: negative when advancePaid > stitchingPrice,
\* non-negative when stitchingPrice >= advancePaid >= 0.
C1_RemainingIsDifference ==
  [][\A c \in Clients :
       SubmitOrder(c) =>
         LET price == orderForm[c].pay.stitchingPrice
             advance == orderForm[c].pay.advancePaid
             p == Created.payment
         IN  /\ p.stitchingPrice = price
             /\ p.advancePaid = advance
             /\ p.remainingAmount = price - advance
             /\ advance > price => p.remainingAmount < 0
             /\ (price >= advance /\ advance >= 0) => p.remainingAmount >= 0]_vars

\* An order created with an overpayment is in the store, its due negative.
C1_Witness ==
  \E i \in 1..Len(dbOrders) :
    /\ "createdAt" \in DOMAIN dbOrders[i]
    /\ dbOrders[i].createdAt > 0
    /\ dbOrders[i].payment.advancePaid > dbOrders[i].payment.stitchingPrice
    /\ dbOrders[i].payment.remainingAmount < 0

\* C2: the created order's payment status is PAID exactly when
\* stitchingPrice - advancePaid <= 0 and UNPAID otherwise, so an exact payment
\* and an overpayment both read PAID.
C2_PaidIffNothingDue ==
  [][\A c \in Clients :
       SubmitOrder(c) =>
         LET price == orderForm[c].pay.stitchingPrice
             advance == orderForm[c].pay.advancePaid
             p == Created.payment
         IN  /\ p.status \in PaymentStatus
             /\ p.status = PAID <=> p.remainingAmount <= 0
             /\ p.status = PAID <=> advance >= price
             /\ p.status = UNPAID <=> advance < price]_vars

\* An order created with an exact payment is in the store and reads PAID.
C2_Witness ==
  \E i \in 1..Len(dbOrders) :
    /\ "createdAt" \in DOMAIN dbOrders[i]
    /\ dbOrders[i].createdAt > 0
    /\ dbOrders[i].payment.advancePaid = dbOrders[i].payment.stitchingPrice
    /\ dbOrders[i].payment.remainingAmount = 0
    /\ dbOrders[i].payment.status = PAID

\* C5: a submit of the order form adds one order to the store, with status
\* PENDING, no messages and an empty photos sequence, whatever customer,
\* measurements and payment the form holds, and carrying those three.
C5_CreatedWithDefaults ==
  [][\A c \in Clients :
       SubmitOrder(c) =>
         /\ Len(dbOrders') = Len(dbOrders) + 1
         /\ SubSeq(dbOrders', 1, Len(dbOrders)) = dbOrders
         /\ Created.status = PENDING
         /\ Created.messages = <<>>
         /\ "photos" \in DOMAIN Created
         /\ Created.photos = <<>>
         /\ Created.customerId = orderForm[c].selectedCustomerId
         /\ Created.measurements = orderForm[c].meas
         /\ Created.payment.stitchingPrice = orderForm[c].pay.stitchingPrice
         /\ Created.payment.advancePaid = orderForm[c].pay.advancePaid]_vars

\* An order created for the second customer with a payment other than the
\* form's initial one is in the store, PENDING and empty.
C5_Witness ==
  /\ Len(dbOrders) = 3
  /\ dbOrders[3].customerId = "c2"
  /\ dbOrders[3].payment.stitchingPrice # InitialPay.stitchingPrice
  /\ dbOrders[3].status = PENDING
  /\ dbOrders[3].messages = <<>>
  /\ dbOrders[3].photos = <<>>

----------------------------------------------------------------------------
(* Properties of the order lifecycle (SpecStatus, SpecRoles) *)

\* C3: whatever status S an existing order has and whatever status T the
\* tailor selects on its card (T = S and S = DELIVERED included), the update
\* is available and leaves the order's stored status equal to T.
C3_AnyTransitionSucceeds ==
  /\ [](\A c \in Clients : \A id \in Ids(ShownOrders(c)) : \A T \in OrderStatus :
          TailorShown(c) => ENABLED UpdateStatus(c, id, T))
  /\ [][\A c \in Clients : \A i \in 1..Len(dbOrders) : \A T \in OrderStatus :
          UpdateStatus(c, dbOrders[i].id, T) =>
            /\ Len(dbOrders') = Len(dbOrders)
            /\ dbOrders'[i].id = dbOrders[i].id
            /\ dbOrders'[i].status = T]_vars

\* An order stored as PENDING that a client still shows as DELIVERED: it
\* has been taken out of DELIVERED.
C3_Witness ==
  \E c \in Clients : \E i \in 1..Len(orders[c]) :
    /\ orders[c][i].status = DELIVERED
    /\ dbOrders[i].id = orders[c][i].id
    /\ dbOrders[i].status = PENDING

StatusesKept ==
  /\ Len(dbOrders') = Len(dbOrders)
  /\ \A i \in 1..Len(dbOrders) : dbOrders'[i].status = dbOrders[i].status

\* C4: while the session of the browser is a customer's, no step changes the
\* status of any order and no status update is available; a step that does
\* change a status is taken under a tailor's session.
C4_OnlyTailorChangesStatus ==
  /\ [](\A c \in Clients : \A id \in Ids(dbOrders) : \A T \in OrderStatus :
          currentUser[c].role = CUSTOMER => ~ENABLED UpdateStatus(c, id, T))
  /\ [][/\ (\E c \in Clients : currentUser[c].role = CUSTOMER) => StatusesKept
        /\ ~StatusesKept => \E c \in Clients : currentUser[c].role = TAILOR]_vars

\* A customer's portal showing an order the tailor has moved to DELIVERED,
\* after a photo upload from the portal has reached the store.
C4_Witness ==
  \E c \in Clients :
    /\ CustomerShown(c)
    /\ \E i \in 1..Len(ShownOrders(c)) : ShownOrders(c)[i].status = DELIVERED
    /\ \E i \in 1..Len(dbOrders) :
         /\ dbOrders[i].customerId = currentUser[c].id
         /\ PhotosOf(dbOrders[i]) # <<>>

----------------------------------------------------------------------------
(* Frame of the three order updates (SpecFrame) *)

\* The store after the step is the store before it, but for the given field
\* of the order with the given id.
OnlyFieldWritten(id, field) ==
  /\ dbCustomers' = dbCustomers
  /\ Len(dbOrders') = Len(dbOrders)
  /\ \A i \in 1..Len(dbOrders) :
       IF dbOrders[i].id = id
       THEN /\ DOMAIN dbOrders'[i] = DOMAIN dbOrders[i] \cup {field}
            /\ \A f \in DOMAIN dbOrders[i] \ {field} :
                 dbOrders'[i][f] = dbOrders[i][f]
       ELSE dbOrders'[i] = dbOrders[i]

\* C6: a status update writes only the status of its order (no message is
\* added), a message send only the messages of its order, a photo update
\* only the photos of its order; payment, measurements, customerId and
\* createdAt of that order, every other order and every customer stay as
\* they were, and no step writes two fields or two orders.
C6_OneFieldOfOneOrder ==
  [][/\ dbOrders' # dbOrders =>
          \E i \in 1..Len(dbOrders) : \E field \in {"status", "messages", "photos"} :
            OnlyFieldWritten(dbOrders[i].id, field)
     /\ dbCustomers' = dbCustomers
     /\ \A c \in Clients : \A i \in 1..Len(dbOrders) :
          LET id == dbOrders[i].id
          IN  /\ \A T \in OrderStatus :
                   UpdateStatus(c, id, T) =>
                     /\ OnlyFieldWritten(id, "status")
                     /\ dbOrders'[i].messages = dbOrders[i].messages
              /\ now' # now =>
                   \A u \in Texts : \A e \in Texts : \A k \in RandomIds :
                     SendMessage(c, id, u, e, k) =>
                       /\ OnlyFieldWritten(id, "messages")
                       /\ dbOrders'[i].status = dbOrders[i].status
              /\ \A r \in readers[c] :
                   (r.id = id /\ ReaderLoad(c, r)) =>
                     /\ OnlyFieldWritten(id, "photos")
                     /\ dbOrders'[i].status = dbOrders[i].status
                     /\ dbOrders'[i].messages = dbOrders[i].messages]_vars

\* An order that has had all three updates, beside one that has had none.
C6_Witness ==
  \E i \in 1..Len(dbOrders) : \E j \in 1..Len(dbOrders) :
    /\ dbOrders[i].status = DELIVERED
    /\ dbOrders[i].messages # <<>>
    /\ PhotosOf(dbOrders[i]) # <<>>
    /\ dbOrders[i].payment = DerivePayment(InitialPay)
    /\ j # i
    /\ dbOrders[j] \in {LegacyOrder, SecondOrder}

----------------------------------------------------------------------------
(* The messaging log (SpecMsg) *)

\* Client c's array holds the order with this id as the store holds it.
ViewFresh(c, id) ==
  /\ id \in Ids(orders[c])
  /\ orders[c][FindOrder(orders[c], id)] = dbOrders[FindOrder(dbOrders, id)]

\* C7: a message sent from a client whose view of the order is current is
\* stored at the head of the order's messages, in front of the messages that
\* were stored before, which keep their place and their content; the new
\* message carries the urdu and english it was sent with and the time of the
\* send.  So M1 and then M2, the view refreshed in between, are stored as
\* <<M2, M1>> followed by the earlier messages.
C7_FreshSendPrepends ==
  [][now' # now =>
       \A c \in Clients : \A i \in 1..Len(dbOrders) :
         \A u \in Texts : \A e \in Texts : \A k \in RandomIds :
           (SendMessage(c, dbOrders[i].id, u, e, k) /\ ViewFresh(c, dbOrders[i].id)) =>
             /\ Len(dbOrders'[i].messages) = Len(dbOrders[i].messages) + 1
             /\ Tail(dbOrders'[i].messages) = dbOrders[i].messages
             /\ Head(dbOrders'[i].messages).urdu = u
             /\ Head(dbOrders'[i].messages).english = e
             /\ Head(dbOrders'[i].messages).timestamp = now]_vars

\* Two messages of different text stored newest first: the second was sent
\* from a view that held the first.
C7_Witness ==
  \E i \in 1..Len(dbOrders) :
    /\ Len(dbOrders[i].messages) = 2
    /\ dbOrders[i].messages[1].timestamp > dbOrders[i].messages[2].timestamp
    /\ dbOrders[i].messages[1].urdu # dbOrders[i].messages[2].urdu

\* C8: every step leaves each order's stored messages as a suffix of its
\* messages after the step: no stored message is removed, altered or moved.
C8_MessagesAppendOnly ==
  [][\A i \in 1..Len(dbOrders) :
       IsSuffix(dbOrders[i].messages, dbOrders'[i].messages)]_vars

----------------------------------------------------------------------------
(* The photo gallery (SpecPhoto) *)

\* C9: a photo whose upload starts from a current view of the order and
\* completes on the order as it was read is stored after the photos stored
\* before, which keep their place; an order without a photos field is read
\* as having none.  So P1 and then P2, the view refreshed in between, are
\* stored as the earlier photos followed by <<P1, P2>>.
C9_FreshUploadAppends ==
  [][\A c \in Clients : \A i \in 1..Len(dbOrders) :
       LET id == dbOrders[i].id
       IN  /\ \A f \in Files :
                ((TailorSelectPhoto(c, id, f) \/ CustomerSelectPhoto(c, id, f))
                   /\ ViewFresh(c, id)) =>
                  \E r \in readers'[c] \ readers[c] :
                    /\ r.id = id
                    /\ r.file = f
                    /\ r.photos = IF "photos" \in DOMAIN dbOrders[i]
                                  THEN dbOrders[i].photos ELSE <<>>
           /\ \A r \in readers[c] :
                (r.id = id /\ ReaderLoad(c, r) /\ r.photos = PhotosOf(dbOrders[i])) =>
                  /\ Len(dbOrders'[i].photos) = Len(PhotosOf(dbOrders[i])) + 1
                  /\ SubSeq(dbOrders'[i].photos, 1, Len(PhotosOf(dbOrders[i])))
                       = PhotosOf(dbOrders[i])
                  /\ dbOrders'[i].photos[Len(dbOrders'[i].photos)] = DataURL(r.file)]_vars

\* The order that had no photos field holds the tailor's photo and, after
\* it, the customer's.
C9_Witness ==
  /\ "photos" \in DOMAIN dbOrders[1]
  /\ dbOrders[1].photos = <<DataURL("f1"), DataURL("f2")>>

\* C10: every step leaves each order's stored photos as a prefix of its
\* photos after the step: no stored photo is dropped.
C10_PhotosAppendOnly ==
  [][\A i \in 1..Len(dbOrders) :
       IsPrefix(PhotosOf(dbOrders[i]), PhotosOf(dbOrders'[i]))]_vars

----------------------------------------------------------------------------
(* Sessions (SpecLogin) *)

\* The places in cs of the customers whose mobileNumber is exactly m.
Holders(cs, m) == {i \in 1..Len(cs) : cs[i].mobileNumber = m}

\* C11: a customer login with the text m starts a CUSTOMER session and shows
\* no error (loginAsCustomer returned true) exactly when some customer of the
\* client's collection has mobileNumber equal to m, and the session's id is
\* then the id of the first such customer; otherwise no session starts and
\* the error is shown (it returned false).
C11_LoginIffRegistered ==
  [][\A c \in Clients :
       HandleCustomerLogin(c) =>
         LET m == loginView[c].mobile
             H == Holders(customers[c], m)
             first == CHOOSE i \in H : \A j \in H : i <= j
         IN  /\ H # {} <=> currentUser'[c] # Null
             /\ H # {} <=> loginView'[c].error # NotFound
             /\ H # {} =>
                   /\ currentUser'[c] =
                        [role |-> CUSTOMER, id |-> customers[c][first].id]
                   /\ customers[c][first].mobileNumber = m
             /\ H = {} => currentUser'[c] = currentUser[c]]_vars

\* The customer session of the first of two customers registered with one
\* mobile number.
C11_Witness ==
  \E c \in Clients :
    /\ currentUser[c] = [role |-> CUSTOMER, id |-> "c1"]
    /\ Cardinality(Holders(customers[c], Mobile1)) = 2

\* C12: a customer login that finds no customer leaves the browser on the
\* login form with the mobile number as typed and the error shown: no session
\* is started, the local and the stored collections are as they were, and the
\* form can be edited and submitted again.
C12_FailedLoginKeepsState ==
  /\ [][\A c \in Clients :
          (HandleCustomerLogin(c) /\ Holders(customers[c], loginView[c].mobile) = {}) =>
            /\ currentUser' = currentUser
            /\ currentUser'[c] = Null
            /\ loginView'[c] = [loginView[c] EXCEPT !.error = NotFound]
            /\ loginView'[c].mobile = loginView[c].mobile
            /\ customers' = customers
            /\ orders' = orders
            /\ UNCHANGED <<dbCustomers, dbOrders, loading, orderForm, readers,
                           dash, customerForm>>]_vars
  /\ [](\A c \in Clients :
          (loginView[c].error = NotFound /\ ~loading[c]) =>
            /\ currentUser[c] = Null
            /\ ENABLED SetRole(c, CUSTOMER)
            /\ loginView[c].role = CUSTOMER =>
                 /\ \A m \in LoginTexts : ENABLED SetMobile(c, m)
                 /\ loginView[c].mobile # <<>> => ENABLED HandleCustomerLogin(c))

\* The login form after a failed login, a registered number typed over the
\* one that failed.
C12_Witness ==
  \E c \in Clients :
    /\ loginView[c].error = NotFound
    /\ loginView[c].mobile = Mobile2
    /\ currentUser[c] = Null

----------------------------------------------------------------------------
(* The directory (SpecSearch) *)

\* C13: while the search term is empty, the customer filter gives the
\* client's customers collection and the order filter its orders collection,
\* element for element in the order of the delivered snapshot, and the open
\* tab lists exactly that.
C13_EmptyTermGivesAll ==
  \A c \in Clients :
    /\ FilteredCustomers(customers[c], <<>>) = customers[c]
    /\ FilteredOrders(orders[c], customers[c], <<>>) = orders[c]
    /\ FilteredCustomers(dbCustomers, <<>>) = dbCustomers
    /\ FilteredOrders(dbOrders, customers[c], <<>>) = dbOrders
    /\ (TailorShown(c) /\ dash[c].searchTerm = <<>>) =>
         /\ dash[c].activeTab = "customers" => CustomerCards(c) = customers[c]
         /\ dash[c].activeTab = "orders" => OrderCards(c) = orders[c]

\* The orders tab with nothing searched, listing three orders, the third of
\* a customer the client does not hold.
C13_Witness ==
  \E c \in Clients :
    /\ TailorShown(c)
    /\ dash[c] = [activeTab |-> "orders", searchTerm |-> <<>>]
    /\ Len(OrderCards(c)) = 3
    /\ FindCustomer(customers[c], OrderCards(c)[3].customerId) = 0

\* The elements of s at the places in S, in the order of s.
Pick(s, S) ==
  LET F[i \in 0..Len(s)] ==
        IF i = 0 THEN <<>>
        ELSE IF i \in S THEN Append(F[i - 1], s[i]) ELSE F[i - 1]
  IN  F[Len(s)]

\* The customer k matches the term: by name or father's name in any case, or
\* by mobile number as typed.
CustomerMatches(k, term) ==
  \/ Includes(ToLowerCase(k.name), ToLowerCase(term))
  \/ Includes(k.mobileNumber, term)
  \/ Includes(ToLowerCase(k.fatherName), ToLowerCase(term))

\* C14: for a non-empty term the customer filter gives exactly the customers
\* of the collection that match it by lower-cased name, by mobile number as
\* typed or by lower-cased father's name, in the order of the collection, and
\* the empty sequence when none matches.
C14_CustomerFilterMatches ==
  /\ FilteredCustomers(<<Customer1, Customer2>>, <<"r", "a">>) = <<Customer1>>
  /\ FilteredCustomers(<<Customer1, Customer2>>, <<"0", "2">>) = <<Customer2>>
  /\ FilteredCustomers(<<Customer1, Customer2>>, <<"L", "I">>) = <<Customer1, Customer2>>
  /\ FilteredCustomers(<<Customer1, Customer2>>, <<"z">>) = <<>>
  /\ \A c \in Clients : \A t \in (SearchTexts \cup MoreTexts) \ {<<>>} :
       LET cs == customers[c]
           R == FilteredCustomers(cs, t)
       IN  /\ R = Pick(cs, {i \in 1..Len(cs) : CustomerMatches(cs[i], t)})
           /\ (\A i \in 1..Len(cs) : ~CustomerMatches(cs[i], t)) => R = <<>>
           /\ (TailorShown(c) /\ dash[c] = [activeTab |-> "customers", searchTerm |-> t])
                 => CustomerCards(c) = R

\* A search by a father's name that lists the first of three customers only,
\* the third having a mobile number that differs from the term in case alone.
C14_Witness ==
  \E c \in Clients :
    /\ TailorShown(c)
    /\ dash[c] = [activeTab |-> "customers", searchTerm |-> <<"r", "a">>]
    /\ Len(customers[c]) = 3
    /\ customers[c][3].mobileNumber = <<"0", "X">>
    /\ CustomerCards(c) = <<Customer1>>

\* The sub-collections of cs: any of its customers left out.
SubCollections(cs) == {Pick(cs, S) : S \in SUBSET (1..Len(cs))}

\* C15: filtering the result of the customer filter again with the same term
\* gives the same sequence, for every term and every collection.
C15_CustomerFilterIdempotent ==
  \A t \in SearchTexts \cup MoreTexts :
    \A cs \in SubCollections(dbCustomers) \cup {customers[c] : c \in Clients} :
      LET R == FilteredCustomers(cs, t)
      IN  FilteredCustomers(R, t) = R

\* A search that lists three customers, two by name and one by father's name.
C15_Witness ==
  \E c \in Clients :
    /\ TailorShown(c)
    /\ dash[c] = [activeTab |-> "customers", searchTerm |-> <<"L", "I">>]
    /\ Len(CustomerCards(c)) = 3
    /\ FilteredCustomers(CustomerCards(c), dash[c].searchTerm) = CustomerCards(c)

\* The order o matches the term against the customers cs: by its id in any
\* case, or by the name in any case of the customer it names, if there is one.
OrderMatches(o, cs, term) ==
  \/ Includes(ToLowerCase(o.id), ToLowerCase(term))
  \/ \E i \in 1..Len(cs) :
       /\ cs[i].id = o.customerId
       /\ Includes(ToLowerCase(cs[i].name), ToLowerCase(term))

\* C16: for a non-empty term the order filter gives exactly the orders that
\* match it by lower-cased id or by the lower-cased name of their customer,
\* in the order of the collection; an order whose customer is not in the
\* customers collection is kept exactly when its id matches, and the orders
\* after it are filtered as usual.
C16_OrderFilterMatches ==
  /\ FilteredOrders(<<LegacyOrder, SecondOrder>>, <<Customer1, Customer2>>, <<"L", "I">>)
       = <<LegacyOrder>>
  /\ FilteredOrders(<<LegacyOrder, SecondOrder>>, <<Customer1>>, <<"o", "2">>)
       = <<SecondOrder>>
  /\ FilteredOrders(<<LegacyOrder, SecondOrder>>, <<Customer2>>, <<"a">>)
       = <<SecondOrder>>
  /\ \A c \in Clients : \A t \in (SearchTexts \cup MoreTexts) \ {<<>>} :
       LET os == orders[c]
           cs == customers[c]
           R == FilteredOrders(os, cs, t)
       IN  /\ R = Pick(os, {i \in 1..Len(os) : OrderMatches(os[i], cs, t)})
           /\ \A i \in 1..Len(os) :
                FindCustomer(cs, os[i].customerId) = 0 =>
                  (os[i].id \in Ids(R) <=> Includes(ToLowerCase(os[i].id), ToLowerCase(t)))
           /\ (TailorShown(c) /\ dash[c] = [activeTab |-> "orders", searchTerm |-> t])
                 => OrderCards(c) = R

\* A search by order id that lists the one order whose customer the client
\* does not hold.
C16_Witness ==
  \E c \in Clients :
    /\ TailorShown(c)
    /\ dash[c] = [activeTab |-> "orders", searchTerm |-> <<"o", "3">>]
    /\ Len(orders[c]) = 3
    /\ Len(OrderCards(c)) = 1
    /\ FindCustomer(customers[c], OrderCards(c)[1].customerId) = 0

\* C17: on the orders tab with nothing searched, every order of the client's
\* collection has a card, those whose customer is not in the customers
\* collection included; and every card of such an order, under any search,
\* carries the name 'Unknown'.
C17_UnknownCustomerListed ==
  \A c \in Clients :
    (TailorShown(c) /\ dash[c].activeTab = "orders") =>
      /\ dash[c].searchTerm = <<>> =>
           \A i \in 1..Len(orders[c]) :
             FindCustomer(customers[c], orders[c][i].customerId) = 0 =>
               /\ Len(OrderCards(c)) = Len(orders[c])
               /\ OrderCards(c)[i] = orders[c][i]
      /\ \A j \in 1..Len(OrderCards(c)) :
           FindCustomer(customers[c], OrderCards(c)[j].customerId) = 0 =>
             CustomerName(customers[c], OrderCards(c)[j]) = Unknown

\* Three order cards with nothing searched: two with their customers' names
\* and one named 'Unknown'.
C17_Witness ==
  \E c \in Clients :
    /\ TailorShown(c)
    /\ dash[c].activeTab = "orders"
    /\ dash[c].searchTerm = <<>>
    /\ [j \in 1..Len(OrderCards(c)) |-> CustomerName(customers[c], OrderCards(c)[j])]
         = <<Customer1.name, Customer2.name, Unknown>>

----------------------------------------------------------------------------
(* The client's collections (SpecLocal) *)

\* C18: a step changes a client's customers collection only by delivering
\* the customers snapshot, and its orders collection only by delivering the
\* orders snapshot, either of which replaces the whole collection by the
\* store's; a step that writes to the store (a customer or an order created,
\* a status, a message or a photo updated) and a step of the search or of a
\* session leave the collections of every client as they were.
C18_OnlySnapshotsChangeLocal ==
  [][/\ \A c \in Clients :
          /\ customers'[c] # customers[c] =>
                SnapshotCustomers(c) /\ customers'[c] = dbCustomers
          /\ orders'[c] # orders[c] =>
                SnapshotOrders(c) /\ orders'[c] = dbOrders
     /\ (dbCustomers' # dbCustomers \/ dbOrders' # dbOrders
           \/ currentUser' # currentUser \/ dash' # dash)
          => customers' = customers /\ orders' = orders]_vars

\* The store holding a customer and an order more than the client, and the
\* first order delivered, with a message and a photo, while the client holds
\* it as it was at the start.
C18_Witness ==
  \E c \in Clients :
    /\ Len(dbCustomers) = 3
    /\ Len(customers[c]) = 2
    /\ Len(dbOrders) = 3
    /\ orders[c] = <<LegacyOrder, SecondOrder>>
    /\ dbOrders[1].status = DELIVERED
    /\ dbOrders[1].messages # <<>>
    /\ PhotosOf(dbOrders[1]) # <<>>
    /\ dash[c].searchTerm # <<>>

----------------------------------------------------------------------------
(* The customer's portal (SpecRoles) *)

\* The places in the client's orders of the orders of its session's customer.
OwnOrders(c) ==
  {i \in 1..Len(orders[c]) : orders[c][i].customerId = currentUser[c].id}

\* C19: in a customer's session the portal shows the orders of the client's
\* collection whose customerId is the session's id, all of them and no other,
\* in the order of the collection; a photo can be chosen only for one of
\* those, and the file read it starts writes to that order.
C19_CustomerSeesOwnOrders ==
  /\ [](\A c \in Clients :
          currentUser[c].role = CUSTOMER =>
            /\ ShownOrders(c) = Pick(orders[c], OwnOrders(c))
            /\ \A i \in 1..Len(orders[c]) : \A f \in Files :
                 ENABLED CustomerSelectPhoto(c, orders[c][i].id, f) => i \in OwnOrders(c))
  /\ [][\A c \in Clients :
          (currentUser[c].role = CUSTOMER /\ readers'[c] # readers[c]) =>
            \A r \in readers'[c] \ readers[c] :
              \E i \in OwnOrders(c) : r.id = orders[c][i].id]_vars

\* The portal of the second customer showing the second order alone, which
\* holds a photo, while the client's collection holds both orders.
C19_Witness ==
  \E c \in Clients :
    /\ CustomerShown(c)
    /\ currentUser[c].id = "c2"
    /\ Len(orders[c]) = 2
    /\ Len(ShownOrders(c)) = 1
    /\ ShownOrders(c)[1].id = OrderId(2)
    /\ PhotosOf(ShownOrders(c)[1]) # <<>>

----------------------------------------------------------------------------
(* The session (SpecLogin) *)

\* C20: the session of a client is null, or a tailor's with no id, or a
\* customer's with the id of a customer that the client's collection held
\* when the session started; a session starts only by one of the two logins
\* from the login view, ends only by logout, and after logout the client
\* shows the login view with no session.
C20_SessionInvariant ==
  /\ [](\A c \in Clients :
          \/ currentUser[c] = Null
          \/ currentUser[c] = [role |-> TAILOR]
          \/ /\ DOMAIN currentUser[c] = {"role", "id"}
             /\ currentUser[c].role = CUSTOMER
             /\ currentUser[c].id \in Ids(customers[c]))
  /\ [][\A c \in Clients :
          /\ currentUser'[c] # currentUser[c] =>
               \/ /\ currentUser[c] = Null
                  /\ View(c) = "LoginView"
                  /\ EnterDashboard(c)
                  /\ currentUser'[c] = [role |-> TAILOR]
               \/ /\ currentUser[c] = Null
                  /\ View(c) = "LoginView"
                  /\ HandleCustomerLogin(c)
                  /\ currentUser'[c].role = CUSTOMER
                  /\ currentUser'[c].id \in Ids(customers[c])
               \/ /\ currentUser[c] # Null
                  /\ Logout(c)
          /\ Logout(c) =>
               /\ currentUser'[c] = Null
               /\ ViewOf(loading'[c], currentUser'[c]) = "LoginView"
               /\ loginView'[c] = InitialLoginView
               /\ dash'[c] = InitialDash]_vars

\* A customer's session in a browser that holds a customer registered from
\* it: the tailor's session has started and ended there before.
C20_Witness ==
  \E c \in Clients :
    /\ currentUser[c].role = CUSTOMER
    /\ View(c) = "CustomerDashboard"
    /\ Len(customers[c]) = 3
    /\ loginView[c] = InitialLoginView

----------------------------------------------------------------------------
(* The loading state (SpecLocal) *)

\* What client c holds besides its two collections and the loading flag.
ClientState(c) ==
  <<currentUser[c], loginView[c], dash[c], orderForm[c], customerForm[c],
    readers[c]>>

\* C21: while a client is loading it shows the spinner: no login and no
\* action of a dashboard is available to it, no step changes its session,
\* its forms or its file reads, and a step that writes to the store is taken
\* by a client that is not loading.  Loading ends only by the delivery of the
\* customers snapshot (the delivery of the orders snapshot leaves it as it
\* is), and once ended it stays ended.
C21_LoadingUntilCustomers ==
  /\ [](\A c \in Clients :
          loading[c] =>
            /\ View(c) = "Loading"
            /\ currentUser[c] = Null
            /\ ~ENABLED LoginAsTailor(c)
            /\ ~ENABLED EnterDashboard(c)
            /\ ~ENABLED HandleCustomerLogin(c)
            /\ \A m \in Mobiles : ~ENABLED LoginAsCustomer(c, m)
            /\ ~ENABLED Logout(c)
            /\ ~ENABLED OpenCustomerForm(c)
            /\ ~ENABLED SubmitCustomer(c)
            /\ ~ENABLED SubmitOrder(c)
            /\ \A tab \in {"customers", "orders"} : ~ENABLED SetActiveTab(c, tab)
            /\ \A i \in 1..Len(dbOrders) :
                 /\ ~ENABLED UpdateStatus(c, dbOrders[i].id, DELIVERED)
                 /\ ~ENABLED SendMessage(c, dbOrders[i].id, "kapray tayyar", "ready", "k1")
                 /\ ~ENABLED TailorSelectPhoto(c, dbOrders[i].id, "f1")
                 /\ ~ENABLED CustomerSelectPhoto(c, dbOrders[i].id, "f1"))
  /\ [][/\ \A c \in Clients :
             /\ loading[c] => ClientState(c)' = ClientState(c)
             /\ loading'[c] # loading[c] =>
                  loading[c] /\ ~loading'[c] /\ SnapshotCustomers(c)
             /\ SnapshotOrders(c) => loading'[c] = loading[c]
             /\ ~loading[c] => ~loading'[c]
        /\ (dbCustomers' # dbCustomers \/ dbOrders' # dbOrders) =>
             \E c \in Clients :
               /\ ~loading[c]
               /\ \/ SubmitCustomer(c)
                  \/ SubmitOrder(c)
                  \/ \E i \in 1..Len(dbOrders) :
                       \/ \E T \in OrderStatus : UpdateStatus(c, dbOrders[i].id, T)
                       \/ dbOrders'[i].messages # dbOrders[i].messages
                            /\ currentUser[c].role = TAILOR
                  \/ \E r \in readers[c] : ReaderLoad(c, r)]_vars

\* A client still loading that already holds the two orders: the orders
\* snapshot has reached it before the customers snapshot.
C21_Witness ==
  \E c \in Clients :
    /\ loading[c]
    /\ Len(orders[c]) = 2
    /\ customers[c] = <<>>

----------------------------------------------------------------------------
(* The customer form (SpecCustomerForm) *)

TextFields == {"name", "fatherName", "mobileNumber", "cnic", "address"}

\* C22: the completion of a profile picture's read replaces the picture of
\* the form and leaves its name, fatherName, mobileNumber, cnic and address
\* as they are at that moment, text typed since the file was chosen
\* included; and the customer a submit creates carries the form's data.
C22_PictureKeepsText ==
  [][\A c \in Clients :
       /\ customerForm[c].open =>
            \A r \in customerForm[c].pics :
              PicLoad(c, r) =>
                /\ customerForm'[c].data.profilePicture = DataURL(r.file)
                /\ \A f \in TextFields :
                     customerForm'[c].data[f] = customerForm[c].data[f]
       /\ SubmitCustomer(c) =>
            \A f \in TextFields \cup {"profilePicture"} :
              dbCustomers'[Len(dbCustomers')][f] = customerForm[c].data[f]]_vars

====
